---- MODULE Spec2Model ----
(***************************************************************************)
(* Model of the fill-in-the-blank quiz maker (component App of             *)
(* src/unnamed/part_000).  Text is a sequence of one-character strings, so *)
(* that escaping, pattern matching, replacement-template expansion and     *)
(* number formatting are computed character by character as the            *)
(* JavaScript string and RegExp operations compute them.  The selection    *)
(* set is a JavaScript Set: it iterates in insertion order, so it is a     *)
(* duplicate-free sequence.                                                *)
(***************************************************************************)
EXTENDS Integers, Sequences, FiniteSets

VARIABLES viewMode, markdown, quizText, selections, quizAnswers, lastEvent

vars == <<viewMode, markdown, quizText, selections, quizAnswers, lastEvent>>

(***************************************************************************)
(* Bounds and input sets                                                   *)
(***************************************************************************)
\* Largest selection set the model lets handleSelection build.
MaxSelections == 2

\* Source texts the user can put in the textarea.
SourceTexts ==
  { <<>>,
    <<"a", ".", "b", " ", "a", "x", "b">>,
    <<"b", "$", "$", "b">> }

\* Raw strings window.getSelection().toString() can return.
RawSelections ==
  { <<>>,
    <<" ">>,
    <<" ", "a">>,
    <<"b", " ">>,
    <<"a", ".", "b">>,
    <<"$", "$">> }

\* Initial content of the textarea (a short stand-in for the sample document).
DEFAULT_MARKDOWN == <<"a", ".", "b", " ", "a", "x", "b">>

(***************************************************************************)
(* Sequence helpers                                                        *)
(***************************************************************************)
Range(s) == { s[i] : i \in 1..Len(s) }

Min(S) == CHOOSE x \in S : \A y \in S : x <= y

\* Does text hold the sequence w at position p?
HasAt(text, p, w) ==
  /\ p >= 1
  /\ p + Len(w) - 1 <= Len(text)
  /\ \A k \in 1..Len(w) : text[p + k - 1] = w[k]

(***************************************************************************)
(* Set<string>: insertion-ordered, duplicate-free                          *)
(***************************************************************************)
SetAdd(s, x) == IF x \in Range(s) THEN s ELSE Append(s, x)

SetDelete(s, x) == SelectSeq(s, LAMBDA y : y # x)

(***************************************************************************)
(* String.prototype.trim                                                   *)
(***************************************************************************)
WhiteSpace == {" ", "\n", "\t"}

\* Variant: trimStart in place of trim.
Trim_LeadingOnly(s) ==
  LET keep == { i \in 1..Len(s) : s[i] \notin WhiteSpace }
  IN  IF keep = {} THEN <<>> ELSE SubSeq(s, Min(keep), Len(s))

Trim(s) ==
  LET keep == { i \in 1..Len(s) : s[i] \notin WhiteSpace }
  IN  IF keep = {} THEN <<>>
      ELSE SubSeq(s, Min(keep), CHOOSE i \in keep : \A j \in keep : j <= i)

(***************************************************************************)
(* Template literal ${questionCounter}: decimal digits of a number       *)
(***************************************************************************)
Digit(d) == <<"0", "1", "2", "3", "4", "5", "6", "7", "8", "9">>[d + 1]

RECURSIVE NumberToString(_)
NumberToString(n) ==
  IF n < 10 THEN <<Digit(n)>>
  ELSE Append(NumberToString(n \div 10), Digit(n % 10))

(***************************************************************************)
(* RegExp: compilation of a pattern and matching at a position.  The       *)
(* syntax covered is what a pattern over the model's alphabet can hold:    *)
(* a backslash escape, the wildcard '.', the assertions '^' and '$', a     *)
(* character class (as compiled from a literal) and literal characters.    *)
(***************************************************************************)
RECURSIVE CompileFrom(_, _)
CompileFrom(p, i) ==
  IF i > Len(p) THEN <<>>
  ELSE IF p[i] = "\\" /\ i < Len(p)
       THEN <<[kind |-> "lit", chars |-> {p[i + 1]}]>> \o CompileFrom(p, i + 2)
  ELSE IF p[i] = "."
       THEN <<[kind |-> "any", chars |-> {}]>> \o CompileFrom(p, i + 1)
  ELSE IF p[i] = "$"
       THEN <<[kind |-> "eol", chars |-> {}]>> \o CompileFrom(p, i + 1)
  ELSE IF p[i] = "^"
       THEN <<[kind |-> "bol", chars |-> {}]>> \o CompileFrom(p, i + 1)
  ELSE <<[kind |-> "lit", chars |-> {p[i]}]>> \o CompileFrom(p, i + 1)

\* new RegExp(pattern, 'g')
RegExp(pattern) == CompileFrom(pattern, 1)

\* End (exclusive) of the match of atoms[k..] starting at pos, or -1.
RECURSIVE MatchAt(_, _, _, _)
MatchAt(atoms, k, text, pos) ==
  IF k > Len(atoms) THEN pos
  ELSE LET a == atoms[k] IN
       IF a.kind = "bol"
       THEN IF pos = 1 THEN MatchAt(atoms, k + 1, text, pos) ELSE -1
       ELSE IF a.kind = "eol"
       THEN IF pos = Len(text) + 1 THEN MatchAt(atoms, k + 1, text, pos) ELSE -1
       ELSE IF pos > Len(text) THEN -1
       ELSE IF a.kind = "any"
       THEN IF text[pos] # "\n" THEN MatchAt(atoms, k + 1, text, pos + 1) ELSE -1
       ELSE IF text[pos] \in a.chars
       THEN MatchAt(atoms, k + 1, text, pos + 1)
       ELSE -1

\* First position >= pos where the pattern matches, or 0.
NextMatch(atoms, text, pos) ==
  LET S == { p \in pos..(Len(text) + 1) : MatchAt(atoms, 1, text, p) # -1 }
  IN  IF S = {} THEN 0 ELSE Min(S)

\* The matches of a global regex, left to right: <<start, end (exclusive)>>.
\* After an empty match lastIndex advances by one.
RECURSIVE MatchesFrom(_, _, _)
MatchesFrom(atoms, text, pos) ==
  LET m == NextMatch(atoms, text, pos) IN
  IF m = 0 THEN <<>>
  ELSE LET e == MatchAt(atoms, 1, text, m) IN
       <<<<m, e>>>> \o MatchesFrom(atoms, text, IF e = m THEN m + 1 ELSE e)

Matches(atoms, text) == MatchesFrom(atoms, text, 1)

(***************************************************************************)
(* String.prototype.replace(regex, replacement): the replacement string    *)
(* is a template in which "$$", "$&", "$" + grave accent and "$" +         *)
(* apostrophe are special ("$1".."$99" are literal text when the pattern   *)
(* has no capture group, and none here has).  The grave accent and the     *)
(* apostrophe are written by code point.                                   *)
(***************************************************************************)
GraveAccent == "U+0060"

Apostrophe == "U+0027"

RECURSIVE ExpandFrom(_, _, _, _, _)
ExpandFrom(tpl, i, text, s, e) ==
  LET D == { j \in i..Len(tpl) : tpl[j] = "$" } IN
  IF D = {} THEN SubSeq(tpl, i, Len(tpl))
  ELSE LET j   == Min(D)
           nxt == IF j < Len(tpl) THEN tpl[j + 1] ELSE ""
       IN  SubSeq(tpl, i, j - 1) \o
           ( IF nxt = "$" THEN <<"$">> \o ExpandFrom(tpl, j + 2, text, s, e)
             ELSE IF nxt = "&"
                  THEN SubSeq(text, s, e - 1) \o ExpandFrom(tpl, j + 2, text, s, e)
             ELSE IF nxt = GraveAccent
                  THEN SubSeq(text, 1, s - 1) \o ExpandFrom(tpl, j + 2, text, s, e)
             ELSE IF nxt = Apostrophe
                  THEN SubSeq(text, e, Len(text)) \o ExpandFrom(tpl, j + 2, text, s, e)
             ELSE <<"$">> \o ExpandFrom(tpl, j + 1, text, s, e) )

\* What one match <<s, e>> of text is replaced by.
GetSubstitution(tpl, text, s, e) == ExpandFrom(tpl, 1, text, s, e)

RECURSIVE Splice(_, _, _, _, _)
Splice(ms, i, tpl, text, pos) ==
  IF i > Len(ms) THEN SubSeq(text, pos, Len(text))
  ELSE SubSeq(text, pos, ms[i][1] - 1)
         \o GetSubstitution(tpl, text, ms[i][1], ms[i][2])
         \o Splice(ms, i + 1, tpl, text, ms[i][2])

Replace(text, regex, tpl) == Splice(Matches(regex, text), 1, tpl, text, 1)

(***************************************************************************)
(* word.replace(/[.*+?^${}()|[\]\\]/g, '\\$&')                             *)
(***************************************************************************)
RegexSpecials ==
  {".", "*", "+", "?", "^", "$", "{", "}", "(", ")", "|", "[", "]", "\\"}

\* Variant: the character class lacks the dot.
escapedWord_DotUnescaped(word) ==
  Replace(word, <<[kind |-> "class", chars |-> RegexSpecials \ {"."}]>>,
          <<"\\", "$", "&">>)

escapedWord(word) ==
  Replace(word, <<[kind |-> "class", chars |-> RegexSpecials]>>, <<"\\", "$", "&">>)

\* const regex = new RegExp(escapedWord, 'g')
regex(word) == RegExp(escapedWord(word))

(***************************************************************************)
(* Markup emitted by the engine                                            *)
(***************************************************************************)
\* <span class="question-target"> ( No.
QuizOpen ==
  <<"<", "s", "p", "a", "n", " ", "c", "l", "a", "s", "s", "=", "\"", "q",
    "u", "e", "s", "t", "i", "o", "n", "-", "t", "a", "r", "g", "e", "t",
    "\"", ">", " ", "(", " ", "N", "o", ".">>

\*  ) </span>
QuizClose == <<" ", ")", " ", "<", "/", "s", "p", "a", "n", ">">>

\* <mark class="bg-yellow-300 px-1 rounded cursor-pointer">
MarkOpen ==
  <<"<", "m", "a", "r", "k", " ", "c", "l", "a", "s", "s", "=", "\"", "b",
    "g", "-", "y", "e", "l", "l", "o", "w", "-", "3", "0", "0", " ", "p",
    "x", "-", "1", " ", "r", "o", "u", "n", "d", "e", "d", " ", "c", "u",
    "r", "s", "o", "r", "-", "p", "o", "i", "n", "t", "e", "r", "\"", ">">>

\* </mark>
MarkClose == <<"<", "/", "m", "a", "r", "k", ">">>

\* <span class="question-target"> ( No.${questionCounter} ) </span>
QuizMarker(questionCounter) ==
  QuizOpen \o NumberToString(questionCounter) \o QuizClose

\* <mark class="bg-yellow-300 px-1 rounded cursor-pointer">${word}</mark>
MarkTemplate(word) == MarkOpen \o word \o MarkClose

(***************************************************************************)
(* generateAndSetQuiz: the forEach over Array.from(selections)             *)
(***************************************************************************)
\* Variant: questionCounter++ is missing.
QuizStep_CounterNotAdvanced(acc, word) ==
  [ newQuizText     |-> Replace(acc.newQuizText, regex(word),
                                QuizMarker(acc.questionCounter)),
    newAnswers      |-> Append(acc.newAnswers,
                               [number |-> acc.questionCounter, word |-> word]),
    questionCounter |-> acc.questionCounter ]

QuizStep(acc, word) ==
  [ newQuizText     |-> Replace(acc.newQuizText, regex(word),
                                QuizMarker(acc.questionCounter)),
    newAnswers      |-> Append(acc.newAnswers,
                               [number |-> acc.questionCounter, word |-> word]),
    questionCounter |-> acc.questionCounter + 1 ]

RECURSIVE QuizLoop(_, _, _)
QuizLoop(wordsToReplace, i, acc) ==
  IF i > Len(wordsToReplace) THEN acc
  ELSE QuizLoop(wordsToReplace, i + 1, QuizStep(acc, wordsToReplace[i]))

\* The quiz generated from a source text and a selection set.
Quiz(text, sel) ==
  QuizLoop(sel, 1, [newQuizText |-> text, newAnswers |-> <<>>, questionCounter |-> 1])

(***************************************************************************)
(* highlightedText: the forEach over Array.from(selections)                *)
(***************************************************************************)
HighlightStep(tempText, word) ==
  Replace(tempText, regex(word), MarkTemplate(word))

\* tempText after the first k targets have been substituted.
RECURSIVE TempText(_, _, _)
TempText(text, wordsToHighlight, k) ==
  IF k = 0 THEN text
  ELSE HighlightStep(TempText(text, wordsToHighlight, k - 1), wordsToHighlight[k])

Highlight(text, sel) ==
  IF Len(sel) = 0 THEN text ELSE TempText(text, sel, Len(sel))

highlightedText == Highlight(markdown, selections)

previewContent == IF viewMode = "quiz" THEN quizText ELSE highlightedText

\* The wrappers the k-th substitution of highlightedText writes, one per match.
WrappersOf(text, sel, k) ==
  LET before == TempText(text, sel, k - 1)
      ms     == Matches(regex(sel[k]), before)
  IN  { GetSubstitution(MarkTemplate(sel[k]), before, ms[i][1], ms[i][2]) :
          i \in 1..Len(ms) }

\* e.target.innerText of a wrapper as it was written.
innerText(wrapper) ==
  SubSeq(wrapper, Len(MarkOpen) + 1, Len(wrapper) - Len(MarkClose))

\* Elements a click in the preview box can land on: a highlight wrapper, or
\* anything else.
ClickTargets ==
  { [tagName |-> "MARK", innerText |-> innerText(w)] :
      w \in UNION { WrappersOf(markdown, selections, k) : k \in 1..Len(selections) } }
  \cup { [tagName |-> "DIV", innerText |-> markdown] }

\* Values of window.getSelection()?.toString(): no selection object, or a string.
SelectionInputs ==
  { [isNull |-> TRUE, text |-> <<>>] }
  \cup { [isNull |-> FALSE, text |-> r] : r \in RawSelections }

(***************************************************************************)
(* State machine                                                           *)
(***************************************************************************)
Init ==
  /\ viewMode = "select"
  /\ markdown = DEFAULT_MARKDOWN
  /\ quizText = <<>>
  /\ selections = <<>>
  /\ quizAnswers = <<>>
  /\ lastEvent = "init"

\* onMouseUp of the preview box.
handleSelection(sel) ==
  LET selectedText == IF sel.isNull THEN <<>> ELSE Trim(sel.text)
      newSelections == IF viewMode # "select" THEN selections
                       ELSE IF selectedText # <<>> THEN SetAdd(selections, selectedText)
                       ELSE selections
  IN
  /\ Len(newSelections) <= MaxSelections
  /\ selections' = newSelections
  /\ lastEvent' = "handleSelection"
  /\ UNCHANGED <<viewMode, markdown, quizText, quizAnswers>>

\* Variant: the viewMode === 'select' condition is missing.
handlePreviewClick_NoModeCheck(e) ==
  /\ selections' = IF e.tagName = "MARK" /\ e.innerText # <<>>
                   THEN SetDelete(selections, e.innerText)
                   ELSE selections
  /\ lastEvent' = "handlePreviewClick"
  /\ UNCHANGED <<viewMode, markdown, quizText, quizAnswers>>

\* onClick of the preview box.
handlePreviewClick(e) ==
  /\ selections' = IF viewMode = "select" /\ e.tagName = "MARK" /\ e.innerText # <<>>
                   THEN SetDelete(selections, e.innerText)
                   ELSE selections
  /\ lastEvent' = "handlePreviewClick"
  /\ UNCHANGED <<viewMode, markdown, quizText, quizAnswers>>

\* Variant: the early return on an empty selection set is missing.
generateAndSetQuiz_NoEmptyCheck ==
  LET q == Quiz(markdown, selections) IN
  /\ lastEvent' = "generateAndSetQuiz"
  /\ quizText' = q.newQuizText
  /\ quizAnswers' = q.newAnswers
  /\ viewMode' = "quiz"
  /\ UNCHANGED <<markdown, selections>>

\* onClick of the quiz-mode button.
generateAndSetQuiz ==
  /\ lastEvent' = "generateAndSetQuiz"
  /\ IF Len(selections) = 0
     THEN UNCHANGED <<viewMode, markdown, quizText, selections, quizAnswers>>
     ELSE LET q == Quiz(markdown, selections) IN
          /\ quizText' = q.newQuizText
          /\ quizAnswers' = q.newAnswers
          /\ viewMode' = "quiz"
          /\ UNCHANGED <<markdown, selections>>

\* Variant: an edit of the source text also discards the stored quiz.
setMarkdown_ClearsQuiz(value) ==
  /\ markdown' = value
  /\ quizText' = <<>>
  /\ quizAnswers' = <<>>
  /\ lastEvent' = "setMarkdown"
  /\ UNCHANGED <<viewMode, selections>>

\* onChange of the textarea.
setMarkdown(value) ==
  /\ markdown' = value
  /\ lastEvent' = "setMarkdown"
  /\ UNCHANGED <<viewMode, quizText, selections, quizAnswers>>

\* onClick of the select-mode button: setViewMode('select').
setViewMode ==
  /\ viewMode' = "select"
  /\ lastEvent' = "setViewMode"
  /\ UNCHANGED <<markdown, quizText, selections, quizAnswers>>

Next ==
  \/ \E sel \in SelectionInputs : handleSelection(sel)
  \/ \E e \in ClickTargets : handlePreviewClick(e)
  \/ generateAndSetQuiz
  \/ \E value \in SourceTexts : setMarkdown(value)
  \/ setViewMode

Spec == Init /\ [][Next]_vars

(***************************************************************************)
(* Reference operators the properties are stated with                      *)
(***************************************************************************)
\* Plain substring search, left to right, non-overlapping:
\* <<start, end (exclusive)>> of every occurrence of w in text.
RECURSIVE PlainFrom(_, _, _)
PlainFrom(w, text, pos) ==
  LET S == { p \in pos..(Len(text) - Len(w) + 1) : HasAt(text, p, w) } IN
  IF S = {} THEN <<>>
  ELSE LET m == Min(S) IN <<<<m, m + Len(w)>>>> \o PlainFrom(w, text, m + Len(w))

PlainOccurrences(w, text) == PlainFrom(w, text, 1)

\* The element of a set of <<position, ...>> tuples with the least position.
Leftmost(S) == CHOOSE x \in S : \A y \in S : x[1] <= y[1]

\* The intact blank markers of a quiz text: <<position, number>>.
MarkersIn(qt, numbers) ==
  { m \in (1..Len(qt)) \X numbers : HasAt(qt, m[1], QuizMarker(m[2])) }

\* Reading a quiz text left to right, each intact marker numbered k stands
\* for the target words[k] and every other character for itself: the set of
\* <<source position, number>> at which the markers stand.
RECURSIVE BlanksFrom(_, _, _, _)
BlanksFrom(ms, words, pos, srcPos) ==
  LET S == { m \in ms : m[1] >= pos } IN
  IF S = {} THEN {}
  ELSE LET m  == Leftmost(S)
           at == srcPos + (m[1] - pos)
       IN  {<<at, m[2]>>}
             \cup BlanksFrom(ms, words, m[1] + Len(QuizMarker(m[2])),
                             at + Len(words[m[2]]))

Blanks(qt, words) == BlanksFrom(MarkersIn(qt, 1..Len(words)), words, 1, 1)

\* The word of the answer entry whose number is n.
WordOf(answers, n) ==
  answers[CHOOSE i \in 1..Len(answers) : answers[i].number = n].word

\* A quiz text with every intact marker ( No.N ) put back to the word of the
\* answer entry numbered N, in one pass.
RECURSIVE RestoreFrom(_, _, _, _)
RestoreFrom(qt, ms, answers, pos) ==
  LET S == { m \in ms : m[1] >= pos } IN
  IF S = {} THEN SubSeq(qt, pos, Len(qt))
  ELSE LET m == Leftmost(S) IN
       SubSeq(qt, pos, m[1] - 1)
         \o WordOf(answers, m[2])
         \o RestoreFrom(qt, ms, answers, m[1] + Len(QuizMarker(m[2])))

Restore(qt, answers) ==
  RestoreFrom(qt, MarkersIn(qt, { answers[i].number : i \in 1..Len(answers) }),
              answers, 1)

\* The insertion orders of the targets of a selection set.
Orders(sel) == { p \in [1..Len(sel) -> Range(sel)] : Range(p) = Range(sel) }

\* The intact wrapper tags of a highlighted text: <<position, tag>>.
WrapperTags(h) ==
  { t \in (1..Len(h)) \X {MarkOpen, MarkClose} : HasAt(h, t[1], t[2]) }

\* A highlighted text with every intact wrapper tag removed.
RECURSIVE StripFrom(_, _, _)
StripFrom(h, tags, pos) ==
  LET S == { t \in tags : t[1] >= pos } IN
  IF S = {} THEN SubSeq(h, pos, Len(h))
  ELSE LET t == Leftmost(S) IN
       SubSeq(h, pos, t[1] - 1) \o StripFrom(h, tags, t[1] + Len(t[2]))

StripWrappers(h) == StripFrom(h, WrapperTags(h), 1)

\* A step in which generateAndSetQuiz ran on a non-empty selection set.
Generated == lastEvent' = "generateAndSetQuiz" /\ Len(selections) > 0

(***************************************************************************)
(* C1: after generateAndSetQuiz runs with a non-empty selection set of n   *)
(* distinct targets, quizAnswers has exactly n entries, numbered 1..n in   *)
(* ascending order with no gap and no repeat, and their words are exactly  *)
(* the targets of the selection set (one entry per target, not per         *)
(* occurrence).                                                            *)
(***************************************************************************)
C1_OneAnswerPerTarget ==
  [][ Generated =>
        /\ Len(quizAnswers') = Cardinality(Range(selections))
        /\ \A i \in 1..Len(quizAnswers') : quizAnswers'[i].number = i
        /\ { quizAnswers'[i].word : i \in 1..Len(quizAnswers') } = Range(selections)
    ]_vars

\* A quiz of two targets was just generated from a text in which one of them
\* occurs twice.
C1_Witness ==
  /\ lastEvent = "generateAndSetQuiz"
  /\ markdown = <<"b", "$", "$", "b">>
  /\ Range(selections) = { <<"b">>, <<"$", "$">> }
  /\ Len(PlainOccurrences(<<"b">>, markdown)) = 2
  /\ Len(quizAnswers) = 2

(***************************************************************************)
(* C5: in every reachable state the selection set holds no empty string    *)
(* and no string with leading or trailing whitespace.                      *)
(***************************************************************************)
C5_TrimmedNonEmpty ==
  \A i \in 1..Len(selections) :
    /\ selections[i] # <<>>
    /\ selections[i][1] \notin WhiteSpace
    /\ selections[i][Len(selections[i])] \notin WhiteSpace

\* Both targets were inserted by handleSelection from raw selections that
\* carry whitespace (" a" and "b ").
C5_Witness ==
  /\ lastEvent = "handleSelection"
  /\ Range(selections) = { <<"a">>, <<"b">> }
  /\ <<"a">> \notin RawSelections
  /\ <<"b">> \notin RawSelections

(***************************************************************************)
(* C6: generateAndSetQuiz called while the selection set is empty changes  *)
(* none of quizText, quizAnswers, viewMode, the source text and the        *)
(* selection set.                                                          *)
(***************************************************************************)
C6_EmptySelectionNoOp ==
  [][ (lastEvent' = "generateAndSetQuiz" /\ Len(selections) = 0) =>
        UNCHANGED <<quizText, quizAnswers, viewMode, markdown, selections>>
    ]_vars

\* generateAndSetQuiz just ran on an empty selection set while an earlier
\* quiz was stored and the view was back in select mode.
C6_Witness ==
  /\ lastEvent = "generateAndSetQuiz"
  /\ Len(selections) = 0
  /\ Len(quizAnswers) > 0
  /\ quizText # <<>>
  /\ viewMode = "select"

(***************************************************************************)
(* C8: for a selection set holding a single target w, the pattern built    *)
(* from w matches exactly the literal occurrences of w in the source text, *)
(* the positions a plain left-to-right non-overlapping substring search    *)
(* finds, and nothing else.                                                *)
(***************************************************************************)
C8_EscapedPatternIsLiteral ==
  Len(selections) = 1 =>
    Matches(regex(selections[1]), markdown) = PlainOccurrences(selections[1], markdown)

\* The single target a.b holds a regex metacharacter and the text holds both
\* a.b and axb, which the unescaped pattern would also match.
C8_Witness ==
  /\ selections = << <<"a", ".", "b">> >>
  /\ markdown = <<"a", ".", "b", " ", "a", "x", "b">>
  /\ Matches(regex(selections[1]), markdown) = << <<1, 4>> >>

(***************************************************************************)
(* C10: once a quiz is stored, every event other than a generateAndSetQuiz *)
(* call with a non-empty selection set leaves quizText and quizAnswers     *)
(* unchanged; a successful generation replaces both in one step, from the  *)
(* current source text and selection set and not from the old quiz.        *)
(***************************************************************************)
C10_QuizFrozen ==
  [][ /\ ~Generated => UNCHANGED <<quizText, quizAnswers>>
      /\ Generated =>
           /\ quizText' = Quiz(markdown, selections).newQuizText
           /\ Len(quizAnswers') = Len(selections)
           /\ quizAnswers'[1].number = 1
           /\ viewMode' = "quiz"
    ]_vars

\* A stored quiz survived an edit that emptied the source text.
C10_Witness ==
  /\ lastEvent = "setMarkdown"
  /\ markdown = <<>>
  /\ quizText # <<>>
  /\ Len(quizAnswers) > 0

(***************************************************************************)
(* C2: after generateAndSetQuiz runs with a non-empty selection set, for   *)
(* every target w with number k, every occurrence of w in the source text  *)
(* stands in quizText as an intact blank marker numbered k (not as literal *)
(* text, not under a marker of another number), for every source text and  *)
(* every selection set.                                                    *)
(***************************************************************************)
C2_EveryOccurrenceBlanked ==
  [][ Generated =>
        \A k \in 1..Len(selections) :
          LET occ == PlainOccurrences(selections[k], markdown) IN
          \A i \in 1..Len(occ) : <<occ[i][1], k>> \in Blanks(quizText', selections)
    ]_vars

(***************************************************************************)
(* C3: round trip: putting the word of answer N back for every marker      *)
(* ( No.N ) of the generated quizText gives the source text that the       *)
(* generation started from.                                                *)
(***************************************************************************)
C3_RoundTrip ==
  [][ Generated => Restore(quizText', quizAnswers') = markdown ]_vars

(***************************************************************************)
(* C4: for a fixed source text and a fixed set of targets, every insertion *)
(* order of the targets generates the same quizText and the same           *)
(* quizAnswers.                                                            *)
(***************************************************************************)
C4_NumberingStable ==
  [][ Generated =>
        \A other \in Orders(selections) :
          /\ Quiz(markdown, other).newAnswers = quizAnswers'
          /\ Quiz(markdown, other).newQuizText = quizText'
    ]_vars

(***************************************************************************)
(* C7: in select mode every wrapper that highlightedText writes for a      *)
(* target w carries exactly w as its text, so that handlePreviewClick on   *)
(* it leaves the selection set without w and with every other target.      *)
(***************************************************************************)
C7_ClickDeselects ==
  viewMode = "select" =>
    \A k \in 1..Len(selections) :
      \A wrapper \in WrappersOf(markdown, selections, k) :
        /\ innerText(wrapper) = selections[k]
        /\ Range(SetDelete(selections, innerText(wrapper)))
             = Range(selections) \ {selections[k]}

(***************************************************************************)
(* C9: highlightedText is well formed for every source text and selection  *)
(* set: removing the wrapper tags gives back the source text, and every    *)
(* opening tag is followed by exactly one selected target and its closing  *)
(* tag (no wrapper nested in another or cut open).                         *)
(***************************************************************************)
C9_HighlightWellFormed ==
  LET h     == highlightedText
      tags  == WrapperTags(h)
      opens == { t \in tags : t[2] = MarkOpen }
  IN  /\ StripWrappers(h) = markdown
      /\ Cardinality(tags) = 2 * Cardinality(opens)
      /\ \A t \in opens :
           \E w \in Range(selections) : HasAt(h, t[1], MarkOpen \o w \o MarkClose)

(***************************************************************************)
(* C11: in every reachable state where viewMode is 'quiz', the selection   *)
(* set is non-empty, quizAnswers has as many entries as the selection set  *)
(* has targets, and the words of quizAnswers are exactly the targets of    *)
(* the current selection set.                                              *)
(***************************************************************************)
C11_QuizModeAnswersMatchSelection ==
  viewMode = "quiz" =>
    /\ Len(selections) > 0
    /\ Len(quizAnswers) = Cardinality(Range(selections))
    /\ { quizAnswers[i].word : i \in 1..Len(quizAnswers) } = Range(selections)

\* In quiz mode a click landed on an element that reads as a highlight
\* wrapper of a selected target, and the selection set kept that target.
C11_Witness ==
  /\ viewMode = "quiz"
  /\ lastEvent = "handlePreviewClick"
  /\ Len(selections) = 2
  /\ \E e \in ClickTargets :
       e.tagName = "MARK" /\ e.innerText \in Range(selections)

====
